---- MODULE Spec2Model ----
(***************************************************************************)
(* Endpoint (channel builder) and ClientTlsConfig of tonic's transport     *)
(* layer, src/tonic/src/transport/endpoint.rs.                             *)
(*                                                                         *)
(* Texts (URI strings, domain names) are sequences of lexical units: a     *)
(* unit is a run of bytes of one character class, so every decision the    *)
(* URI parser takes byte by byte is taken here unit by unit, and the byte  *)
(* length of a unit is kept where the parser compares lengths.             *)
(* Option<T> is a sequence of length at most one: None is <<>>, Some(v)    *)
(* is <<v>>.  Result<T, E> is a record [ok, val] or [ok, err].             *)
(***************************************************************************)
EXTENDS Integers, Sequences, FiniteSets, TLC

VARIABLES src, ep, cfg, outcome, handed, reply, last

vars == <<src, ep, cfg, outcome, handed, reply, last>>

None == <<>>
Some(v) == <<v>>
IsSome(o) == o # <<>>
Unwrap(o) == o[1]

Ok(v) == [ok |-> TRUE, val |-> v]
Err(e) == [ok |-> FALSE, err |-> e]

-----------------------------------------------------------------------------
(* Bounds of the model.                                                    *)

\* longest caller-supplied address text, in lexical units
MaxLen == 5
\* flow-control window sizes are 1..MaxWindow
MaxWindow == 1

-----------------------------------------------------------------------------
(* Texts.                                                                  *)

Letters == {"https", "example.com"}
Alphabet == Letters \cup {":", "/", "#", " "}

ByteLen(t) == IF t = "https" THEN 5 ELSE IF t = "example.com" THEN 11 ELSE 1

RECURSIVE Bytes(_)
Bytes(s) == IF s = <<>> THEN 0 ELSE ByteLen(Head(s)) + Bytes(Tail(s))

Texts(n) == UNION {[1..k -> Alphabet] : k \in 0..n}

ExampleCom == <<"https", ":", "/", "/", "example.com">>
ExampleComSlash == <<"https", ":", "/", "/", "example.com", "/">>

Prefix(s, n) == SubSeq(s, 1, n)
Suffix(s, n) == SubSeq(s, n + 1, Len(s))

-----------------------------------------------------------------------------
(* http::Uri, as used through Uri::from_shared, Uri::from_static and       *)
(* Uri's Display (to_string).                                              *)

\* Scheme2::parse: the index of the ":" that ends the scheme, 0 when the
\* text has no scheme.  The scan stops at the first unit that is no scheme
\* character; a ":" ends a scheme only when "//" follows it.
RECURSIVE SchemeScan(_, _)
SchemeScan(s, i) ==
    IF i > Len(s) THEN 0
    ELSE IF s[i] = ":"
         THEN IF i + 2 <= Len(s) /\ s[i + 1] = "/" /\ s[i + 2] = "/" THEN i ELSE 0
         ELSE IF s[i] \in Letters THEN SchemeScan(s, i + 1) ELSE 0

SchemeParse(s) == IF Bytes(s) > 3 THEN SchemeScan(s, 1) ELSE 0

\* index of the first unit of s that is in stop, Len(s) + 1 when there is none
RECURSIVE FirstOf(_, _, _)
FirstOf(s, stop, i) ==
    IF i > Len(s) THEN i
    ELSE IF s[i] \in stop THEN i ELSE FirstOf(s, stop, i + 1)

Count(s, t) == Cardinality({i \in 1..Len(s) : s[i] = t})

\* Authority::parse: the length of the authority that starts the text
AuthorityParse(s) ==
    LET end == FirstOf(s, {"/", "#"}, 1) - 1
        auth == Prefix(s, end)
    IN  IF Count(auth, " ") > 0 THEN Err("InvalidUriChar")
        ELSE IF Count(auth, ":") > 1 THEN Err("InvalidAuthority")
        ELSE Ok(end)

\* PathAndQuery::from_shared: the fragment is cut off, the rest is kept
PathAndQueryParse(s) ==
    LET end == FirstOf(s, {"#"}, 1) - 1
        data == Prefix(s, end)
    IN  IF Count(data, " ") > 0 THEN Err("InvalidUriChar") ELSE Ok(data)

Uri(scheme, authority, path) ==
    [scheme |-> scheme, authority |-> authority, path |-> path]

\* parse_full
ParseFull(s) ==
    LET k == SchemeParse(s)
        rest == IF k = 0 THEN s ELSE Suffix(s, k + 2)
        a == AuthorityParse(rest)
    IN  IF ~a.ok THEN Err(a.err)
        ELSE IF k = 0
             THEN IF a.val # Len(rest) THEN Err("InvalidFormat")
                  ELSE Ok(Uri(None, rest, <<>>))
        ELSE IF a.val = 0 THEN Err("InvalidFormat")
        ELSE LET p == PathAndQueryParse(Suffix(rest, a.val))
             IN  IF ~p.ok THEN Err(p.err)
                 ELSE Ok(Uri(Some(Prefix(s, k - 1)), Prefix(rest, a.val), p.val))

\* Uri::from_shared
UriFromShared(s) ==
    IF Len(s) = 0 THEN Err("Empty")
    ELSE IF Bytes(s) = 1 /\ s[1] = "/" THEN Ok(Uri(None, <<>>, <<"/">>))
    ELSE IF s[1] = "/"
         THEN LET p == PathAndQueryParse(s)
              IN  IF p.ok THEN Ok(Uri(None, <<>>, p.val)) ELSE Err(p.err)
    ELSE ParseFull(s)

\* Uri::path: an absolute URI with no path has the path "/"
UriPath(u) ==
    IF u.path # <<>> THEN u.path
    ELSE IF IsSome(u.scheme) THEN <<"/">> ELSE <<>>

\* Display for Uri (uri.to_string())
UriToString(u) ==
    (IF IsSome(u.scheme) THEN Unwrap(u.scheme) \o <<":", "/", "/">> ELSE <<>>)
        \o u.authority \o UriPath(u)

\* PartialEq for Uri: scheme, authority and path() agree
UriEq(u, v) ==
    /\ u.scheme = v.scheme
    /\ u.authority = v.authority
    /\ UriPath(u) = UriPath(v)

-----------------------------------------------------------------------------
(* Values the callers pass.                                                *)

\* the address texts of the builder scenarios: an absolute URI, an
\* authority-form URI, a text with an invalid character
SampleTexts == {ExampleCom, <<"example.com">>, <<"https", " ">>}

Durations == {2, 5}
Limits == {32, 256}
RateLimits == {<<32, 1>>, <<256, 5>>}
Windows == 1..MaxWindow
WindowArgs == {None} \cup {Some(w) : w \in Windows}
Interceptors == {"f", "g"}

Providers == {"OpenSsl", "Rustls"}
DomainNames == {<<"example.com">>}
Certificates == {"ca.pem", "garbage"}
Identities == {"client.pem"}
SslConnectors == {"ssl_connector"}
ClientConfigs == {"client_config"}

-----------------------------------------------------------------------------
(* TlsConnector constructors (transport/service/tls.rs): each returns      *)
(* Result<TlsConnector, Error>.  A connector records the constructor that  *)
(* built it and the arguments it was given.  Certificate material that     *)
(* does not parse makes the cert constructors fail.                        *)

Connector(ctor, cert, identity, raw, domain) ==
    [ctor |-> ctor, cert |-> cert, identity |-> identity, raw |-> raw,
     domain |-> domain]

new_with_openssl_cert(cert, identity, domain) ==
    IF cert = Some("garbage") THEN Err("tls")
    ELSE Ok(Connector("new_with_openssl_cert", cert, identity, None, domain))

new_with_openssl_raw(raw, domain) ==
    Ok(Connector("new_with_openssl_raw", None, None, Some(raw), domain))

new_with_rustls_cert(cert, identity, domain) ==
    IF cert = Some("garbage") THEN Err("tls")
    ELSE Ok(Connector("new_with_rustls_cert", cert, identity, None, domain))

new_with_rustls_raw(raw, domain) ==
    Ok(Connector("new_with_rustls_raw", None, None, Some(raw), domain))

-----------------------------------------------------------------------------
(* ClientTlsConfig.                                                        *)

\* ClientTlsConfig::new
new_config(provider) ==
    [provider |-> provider, domain |-> None, cert |-> None, identity |-> None,
     openssl_raw |-> None, rustls_raw |-> None]

with_openssl == new_config("OpenSsl")
with_rustls == new_config("Rustls")

domain_name(c, name) == [c EXCEPT !.domain = Some(name)]
ca_certificate(c, cert) == [c EXCEPT !.cert = Some(cert)]
identity(c, id) == [c EXCEPT !.identity = Some(id)]
openssl_connector(c, connector) == [c EXCEPT !.openssl_raw = Some(connector)]
rustls_client_config(c, config) == [c EXCEPT !.rustls_raw = Some(config)]

\* a resolution that takes the certificate when one is set, raw override or not
tls_connector_cert_first(c, uri) ==
    LET domain == IF c.domain = None THEN UriToString(uri) ELSE Unwrap(c.domain)
    IN  IF c.provider = "OpenSsl"
        THEN IF c.openssl_raw = None \/ c.cert # None
             THEN new_with_openssl_cert(c.cert, c.identity, domain)
             ELSE new_with_openssl_raw(Unwrap(c.openssl_raw), domain)
        ELSE IF c.rustls_raw = None \/ c.cert # None
             THEN new_with_rustls_cert(c.cert, c.identity, domain)
             ELSE new_with_rustls_raw(Unwrap(c.rustls_raw), domain)

\* a resolution whose raw branch leaves the domain override out
tls_connector_raw_uri_domain(c, uri) ==
    LET domain == IF c.domain = None THEN UriToString(uri) ELSE Unwrap(c.domain)
    IN  IF c.provider = "OpenSsl"
        THEN IF c.openssl_raw = None
             THEN new_with_openssl_cert(c.cert, c.identity, domain)
             ELSE new_with_openssl_raw(Unwrap(c.openssl_raw), UriToString(uri))
        ELSE IF c.rustls_raw = None
             THEN new_with_rustls_cert(c.cert, c.identity, domain)
             ELSE new_with_rustls_raw(Unwrap(c.rustls_raw), UriToString(uri))

\* ClientTlsConfig::tls_connector
tls_connector(c, uri) ==
    LET domain == IF c.domain = None THEN UriToString(uri) ELSE Unwrap(c.domain)
    IN  IF c.provider = "OpenSsl"
        THEN IF c.openssl_raw = None
             THEN new_with_openssl_cert(c.cert, c.identity, domain)
             ELSE new_with_openssl_raw(Unwrap(c.openssl_raw), domain)
        ELSE IF c.rustls_raw = None
             THEN new_with_rustls_cert(c.cert, c.identity, domain)
             ELSE new_with_rustls_raw(Unwrap(c.rustls_raw), domain)

-----------------------------------------------------------------------------
(* Endpoint.                                                               *)

Panic == Err("panic")

\* an Endpoint that starts with a timeout already set
From_with_timeout(uri) ==
    [uri |-> uri, concurrency_limit |-> None, rate_limit |-> None,
     timeout |-> Some(5), tls |-> None, buffer_size |-> None,
     interceptor_headers |-> None, init_stream_window_size |-> None,
     init_connection_window_size |-> None]

\* impl From<Uri> for Endpoint
From(uri) ==
    [uri |-> uri, concurrency_limit |-> None, rate_limit |-> None,
     timeout |-> None, tls |-> None, buffer_size |-> None,
     interceptor_headers |-> None, init_stream_window_size |-> None,
     init_connection_window_size |-> None]

\* Endpoint::from_static: Uri::from_static panics on a text that is no URI
from_static(s) ==
    LET uri == UriFromShared(s)
    IN  IF uri.ok THEN Ok(From(uri.val)) ELSE Panic

\* a from_shared that stores the authority alone
from_shared_authority_only(s) ==
    LET uri == UriFromShared(s)
    IN  IF uri.ok THEN Ok(From(Uri(None, uri.val.authority, <<>>)))
        ELSE Err("InvalidUriBytes")

\* Endpoint::from_shared
from_shared(s) ==
    LET uri == UriFromShared(s)
    IN  IF uri.ok THEN Ok(From(uri.val)) ELSE Err("InvalidUriBytes")

\* impl TryFrom<Bytes> for Endpoint
try_from_bytes(t) == from_shared(t)

\* impl TryFrom<String> for Endpoint (into_bytes keeps the bytes)
try_from_string(t) == from_shared(t)

\* impl TryFrom<&'static str> for Endpoint: the error type Never has no value
try_from_str(t) == from_static(t)

\* Endpoint::new: the conversion's error becomes a client error
new(kind, dst) ==
    LET me == CASE kind = "Bytes" -> try_from_bytes(dst)
                [] kind = "String" -> try_from_string(dst)
                [] OTHER -> try_from_str(dst)
    IN  IF me.ok \/ me = Panic THEN me ELSE Err("Client")

\* a timeout that keeps a value already set
timeout_keep_first(e, dur) ==
    IF e.timeout = None THEN [e EXCEPT !.timeout = Some(dur)] ELSE e

timeout(e, dur) == [e EXCEPT !.timeout = Some(dur)]

\* a concurrency limit that also fills the buffer size
concurrency_limit_and_buffer(e, limit) ==
    [e EXCEPT !.concurrency_limit = Some(limit), !.buffer_size = Some(limit)]

concurrency_limit(e, limit) == [e EXCEPT !.concurrency_limit = Some(limit)]

rate_limit(e, limit, duration) == [e EXCEPT !.rate_limit = Some(<<limit, duration>>)]

initial_stream_window_size(e, sz) == [e EXCEPT !.init_stream_window_size = sz]

initial_connection_window_size(e, sz) ==
    [e EXCEPT !.init_connection_window_size = sz]

intercept_headers(e, f) == [e EXCEPT !.interceptor_headers = Some(f)]

\* Endpoint::tls_config: the resolution's result is unwrapped
tls_config(e, c) ==
    LET r == tls_connector(c, e.uri)
    IN  IF r.ok THEN Ok([e EXCEPT !.tls = Some(r.val)]) ELSE Panic

\* a connect that hands over a fresh Endpoint of the same target
connect_fresh(e) == From(e.uri)

\* a connect that resolves the TLS settings as they are when it is called
connect_lazy(e) ==
    IF e.tls = None THEN e
    ELSE LET r == tls_connector(cfg, e.uri)
         IN  IF r.ok THEN [e EXCEPT !.tls = Some(r.val)] ELSE e

\* Endpoint::connect: the clone handed to Channel::connect
connect(e) == e

\* what the caller of connect gets: the value Channel::connect returned
connect_result(r) == r

-----------------------------------------------------------------------------
(* State.                                                                  *)
(*   src      the address text the caller builds the Endpoint from         *)
(*   ep       Option<Endpoint>: the caller's Endpoint                      *)
(*   cfg      the caller's ClientTlsConfig                                 *)
(*   outcome  what the last finished call gave its caller                  *)
(*   handed   Option<Endpoint>: the clone a pending connect gave Channel   *)
(*   reply    Option<Result>: what Channel::connect resolved to            *)
(*   last     the argument of the latest call of each Endpoint setter      *)

E == Unwrap(ep)

Outcome(op, kind) == [op |-> op, kind |-> kind]

Returned(op, r) ==
    Outcome(op, IF r.ok THEN "ok" ELSE IF r = Panic THEN "panic" ELSE r.err)

NeverSet ==
    [timeout |-> None, concurrency_limit |-> None, rate_limit |-> None,
     init_stream_window_size |-> None, init_connection_window_size |-> None,
     interceptor_headers |-> None, tls |-> None]

\* a panic ends the caller's thread
Alive == outcome.kind # "panic"

\* no Endpoint has been asked for yet
Fresh == outcome.op = "none"

\* the caller holds an Endpoint and no connect borrows it
Ready == Alive /\ IsSome(ep) /\ handed = None

InitWith(texts, configs) ==
    /\ src \in texts
    /\ ep = None
    /\ cfg \in configs
    /\ outcome = Outcome("none", "ok")
    /\ handed = None
    /\ reply = None
    /\ last = NeverSet

Init == InitWith(SampleTexts, {with_openssl, with_rustls})

InitParse == InitWith(Texts(MaxLen), {with_rustls})

-----------------------------------------------------------------------------
(* Constructors.                                                           *)

Construct(op, r) ==
    /\ Fresh
    /\ ep' = IF r.ok THEN Some(r.val) ELSE None
    /\ outcome' = Returned(op, r)
    /\ UNCHANGED <<src, cfg, handed, reply, last>>

FromStatic == Construct("from_static", from_static(src))

FromShared == Construct("from_shared", from_shared(src))

TryFromBytes == Construct("try_from_bytes", try_from_bytes(src))

TryFromString == Construct("try_from_string", try_from_string(src))

TryFromStr == Construct("try_from_str", try_from_str(src))

\* Endpoint::from(uri): the caller holds a Uri, which is a parsed text
FromUri ==
    /\ UriFromShared(src).ok
    /\ Construct("from", Ok(From(UriFromShared(src).val)))

New == \E kind \in {"Bytes", "String", "str"} : Construct("new", new(kind, src))

-----------------------------------------------------------------------------
(* Endpoint setters.                                                       *)

Set(e, field, arg) ==
    /\ Ready
    /\ ep' = Some(e)
    /\ outcome' = Outcome("set", "ok")
    /\ last' = [last EXCEPT ![field] = Some(arg)]
    /\ UNCHANGED <<src, cfg, handed, reply>>

Timeout == \E dur \in Durations : Set(timeout(E, dur), "timeout", dur)

ConcurrencyLimit ==
    \E limit \in Limits :
        Set(concurrency_limit(E, limit), "concurrency_limit", limit)

RateLimit ==
    \E a \in RateLimits : Set(rate_limit(E, a[1], a[2]), "rate_limit", a)

InitialStreamWindowSize ==
    \E sz \in WindowArgs :
        Set(initial_stream_window_size(E, sz), "init_stream_window_size", sz)

InitialConnectionWindowSize ==
    \E sz \in WindowArgs :
        Set(initial_connection_window_size(E, sz),
            "init_connection_window_size", sz)

InterceptHeaders ==
    \E f \in Interceptors :
        Set(intercept_headers(E, f), "interceptor_headers", f)

TlsConfig ==
    /\ Ready
    /\ LET r == tls_config(E, cfg)
       IN  /\ ep' = IF r.ok THEN Some(r.val) ELSE ep
           /\ outcome' = Returned("tls_config", r)
    /\ last' = [last EXCEPT !.tls = Some(cfg)]
    /\ UNCHANGED <<src, cfg, handed, reply>>

-----------------------------------------------------------------------------
(* connect.  The future borrows the Endpoint until it completes, so no     *)
(* setter runs while a connect is pending.                                 *)

Connect ==
    /\ Ready
    /\ handed' = Some(connect(E))
    /\ UNCHANGED <<src, ep, cfg, outcome, reply, last>>

\* Channel::connect (transport/channel.rs) resolves, one way or the other
ChannelConnect ==
    /\ IsSome(handed)
    /\ reply = None
    /\ \E r \in {Ok("Channel"), Err("transport")} : reply' = Some(r)
    /\ UNCHANGED <<src, ep, cfg, outcome, handed, last>>

ConnectReturn ==
    /\ IsSome(reply)
    /\ outcome' = Returned("connect", connect_result(Unwrap(reply)))
    /\ handed' = None
    /\ reply' = None
    /\ UNCHANGED <<src, ep, cfg, last>>

-----------------------------------------------------------------------------
(* ClientTlsConfig setters.                                                *)

Configure(c) ==
    /\ Alive
    /\ cfg' = c
    /\ UNCHANGED <<src, ep, outcome, handed, reply, last>>

DomainName == \E name \in DomainNames : Configure(domain_name(cfg, name))

CaCertificate == \E cert \in Certificates : Configure(ca_certificate(cfg, cert))

Identity == \E id \in Identities : Configure(identity(cfg, id))

OpensslConnector ==
    \E connector \in SslConnectors : Configure(openssl_connector(cfg, connector))

RustlsClientConfig ==
    \E config \in ClientConfigs : Configure(rustls_client_config(cfg, config))

-----------------------------------------------------------------------------
(* Specifications.                                                         *)

\* the Endpoint builder: constructors, setters, connect, with TLS settings
\* that carry at most a CA certificate
Next ==
    \/ FromStatic
    \/ FromShared
    \/ TryFromBytes
    \/ TryFromString
    \/ TryFromStr
    \/ FromUri
    \/ New
    \/ Timeout
    \/ ConcurrencyLimit
    \/ RateLimit
    \/ InitialStreamWindowSize
    \/ InitialConnectionWindowSize
    \/ InterceptHeaders
    \/ CaCertificate
    \/ TlsConfig
    \/ Connect
    \/ ChannelConnect
    \/ ConnectReturn

Spec == Init /\ [][Next]_vars

\* the constructors over every text of up to MaxLen units
NextParse ==
    \/ FromStatic
    \/ FromShared
    \/ TryFromBytes
    \/ TryFromString
    \/ TryFromStr
    \/ FromUri
    \/ New

SpecParse == InitParse /\ [][NextParse]_vars

\* TLS settings and their resolution
NextTls ==
    \/ FromStatic
    \/ FromShared
    \/ FromUri
    \/ DomainName
    \/ CaCertificate
    \/ Identity
    \/ OpensslConnector
    \/ RustlsClientConfig
    \/ TlsConfig
    \/ Connect
    \/ ChannelConnect
    \/ ConnectReturn

SpecTls == Init /\ [][NextTls]_vars

-----------------------------------------------------------------------------
(* Properties.                                                             *)

\* the TLS settings of the latest tls_config call, and what they resolve to
Settings == Unwrap(last.tls)
Resolution == tls_connector(Settings, E.uri)
SelectedRaw(c) == IF c.provider = "OpenSsl" THEN c.openssl_raw ELSE c.rustls_raw
RawCtor(c) ==
    IF c.provider = "OpenSsl" THEN "new_with_openssl_raw" ELSE "new_with_rustls_raw"
CertCtor(c) ==
    IF c.provider = "OpenSsl" THEN "new_with_openssl_cert" ELSE "new_with_rustls_cert"

\* a tls_config call has returned and its connector is stored
Resolved == IsSome(ep) /\ IsSome(last.tls) /\ Alive

Stored == Unwrap(E.tls)

\* C1: when the backend constructor fails, tls_config returns the failure to
\* its caller as an error value; it does not panic.
C1_FailureIsReturned ==
    (IsSome(ep) /\ outcome.op = "tls_config" /\ ~Resolution.ok)
        => outcome.kind = "tls"

\* C2: with a raw override in the slot of the selected provider the connector
\* is built by the raw constructor from that object, whatever ca_certificate
\* and client_identity are; without one it is built by the cert/identity
\* constructor from ca_certificate and client_identity.
C2_RawOverridePrecedence ==
    Resolved =>
        /\ IsSome(E.tls)
        /\ IF IsSome(SelectedRaw(Settings))
           THEN /\ Stored.ctor = RawCtor(Settings)
                /\ Stored.raw = SelectedRaw(Settings)
                /\ Stored.cert = None
                /\ Stored.identity = None
           ELSE /\ Stored.ctor = CertCtor(Settings)
                /\ Stored.cert = Settings.cert
                /\ Stored.identity = Settings.identity
                /\ Stored.raw = None

C2_Witness ==
    /\ Resolved
    /\ IsSome(SelectedRaw(Settings))
    /\ Settings.cert = Some("garbage")
    /\ IsSome(Settings.identity)
    /\ Stored.ctor = RawCtor(Settings)

\* the domain a connector was built with is the override when one was set
\* and the target's text otherwise, in either branch and for either provider
DomainRule ==
    Stored.domain = IF IsSome(Settings.domain) THEN Unwrap(Settings.domain)
                    ELSE UriToString(E.uri)

SimpleFields == {"timeout", "concurrency_limit", "rate_limit", "interceptor_headers"}
WindowFields == {"init_stream_window_size", "init_connection_window_size"}
SetterFields == SimpleFields \cup WindowFields \cup {"tls"}

\* C4: every field holds the argument of the latest call of its setter (the
\* connector field: what the latest settings resolve to), and a call that
\* repeats the latest argument changes nothing.
C4_LastWriteWins ==
    /\ [](IsSome(ep) /\ Alive =>
            /\ \A f \in SimpleFields : IsSome(last[f]) => E[f] = last[f]
            /\ \A f \in WindowFields : IsSome(last[f]) => E[f] = Unwrap(last[f])
            /\ IsSome(last.tls) => E.tls = Some(Resolution.val))
    /\ [][(IsSome(ep) /\ last' = last) => ep' = ep]_vars

C4_Witness ==
    /\ IsSome(ep)
    /\ E.timeout = Some(2)
    /\ E.rate_limit = Some(<<32, 1>>)
    /\ E.concurrency_limit = Some(256)
    /\ E.init_stream_window_size = None
    /\ last.init_stream_window_size = Some(None)
    /\ IsSome(E.tls)

FallibleConstructors == {"from_shared", "try_from_bytes", "try_from_string"}
Constructors ==
    FallibleConstructors \cup {"from_static", "try_from_str", "from", "new"}

\* two texts name the same target: they parse to equal URIs
Equivalent(a, b) ==
    /\ UriFromShared(a).ok
    /\ UriFromShared(b).ok
    /\ UriEq(UriFromShared(a).val, UriFromShared(b).val)

\* C5: from_shared, TryFrom<Bytes> and TryFrom<String> give, for a valid
\* text, an Endpoint whose target renders to an equivalent text, and for a
\* malformed text the parse error, no Endpoint and no panic.
C5_ParseOrError ==
    outcome.op \in FallibleConstructors =>
        IF UriFromShared(src).ok
        THEN /\ outcome.kind = "ok"
             /\ IsSome(ep)
             /\ Equivalent(UriToString(E.uri), src)
        ELSE /\ outcome.kind = "InvalidUriBytes"
             /\ ep = None

C5_Witness ==
    /\ outcome.op = "try_from_string"
    /\ src = ExampleCom
    /\ IsSome(ep)
    /\ UriToString(E.uri) = ExampleComSlash

OptionalFields == SetterFields \cup {"buffer_size"}

\* C6: a constructor gives an Endpoint with every optional field absent;
\* while tls_config was never called the connector is absent, and while
\* concurrency_limit was never called the limit is absent.
C6_DefaultsAbsent ==
    /\ (outcome.op \in Constructors /\ outcome.kind = "ok") =>
           /\ IsSome(ep)
           /\ \A f \in OptionalFields : E[f] = None
    /\ (IsSome(ep) /\ last.tls = None) => E.tls = None
    /\ (IsSome(ep) /\ last.concurrency_limit = None) => E.concurrency_limit = None

C6_Witness ==
    /\ IsSome(ep)
    /\ last.tls = None
    /\ last.concurrency_limit = None
    /\ IsSome(E.timeout)
    /\ IsSome(E.interceptor_headers)
    /\ outcome.op = "connect"

\* C7: a step changes no field but the one whose setter is called; the
\* target never changes and the buffer size stays absent.
C7_SettersFrame ==
    /\ [][(IsSome(ep) /\ IsSome(ep')) =>
            /\ \A f \in SetterFields :
                   Unwrap(ep')[f] # E[f] =>
                       /\ last'[f] # last[f]
                       /\ \A g \in SetterFields \ {f} : Unwrap(ep')[g] = E[g]
            /\ Unwrap(ep').uri = E.uri
            /\ Unwrap(ep').buffer_size = E.buffer_size]_vars
    /\ [](IsSome(ep) => E.buffer_size = None)

C7_Witness ==
    /\ IsSome(ep)
    /\ E.concurrency_limit = Some(32)
    /\ E.timeout = None
    /\ E.rate_limit = None
    /\ IsSome(E.tls)
    /\ outcome.op = "connect"

\* C8: connect hands Channel a copy equal to the Endpoint, leaves the
\* Endpoint as it was, and returns what Channel::connect returned, once.
C8_ConnectHandsCopy ==
    /\ [](IsSome(handed) => handed = ep)
    /\ [][IsSome(handed') => ep' = ep]_vars
    /\ [][(IsSome(reply) /\ <<ep, outcome, handed, reply>>' # <<ep, outcome, handed, reply>>) =>
            /\ outcome' = Returned("connect", Unwrap(reply))
            /\ handed' = None
            /\ ep' = ep]_vars

C8_Witness ==
    /\ IsSome(handed)
    /\ reply = Some(Err("transport"))
    /\ outcome = Outcome("connect", "ok")
    /\ IsSome(E.timeout)
    /\ IsSome(E.tls)
    /\ IsSome(E.init_connection_window_size)

\* C9: the stored connector is the resolution of the settings as they were
\* when tls_config was called; a failed resolution shows at that call;
\* changing the settings later changes no Endpoint; connect resolves nothing.
C9_EagerResolution ==
    /\ [](IsSome(ep) /\ IsSome(E.tls) =>
            /\ IsSome(last.tls)
            /\ Alive => Resolution = Ok(Stored))
    /\ []((IsSome(ep) /\ IsSome(last.tls) /\ ~Resolution.ok) =>
            /\ outcome.op = "tls_config"
            /\ outcome.kind # "ok"
            /\ handed = None)
    /\ [][cfg' # cfg => ep' = ep]_vars
    /\ [](IsSome(handed) => Unwrap(handed).tls = E.tls)
    /\ [](outcome.op = "connect" => outcome.kind \in {"ok", "transport"})

C9_Witness ==
    /\ IsSome(handed)
    /\ IsSome(E.tls)
    /\ Stored.ctor = "new_with_rustls_cert"
    /\ cfg.rustls_raw # None
    /\ cfg.cert = Some("garbage")

\* C10: no TLS settings value holds a raw override in the slot of a
\* provider other than its own.
C10_RawOnlyForSelectedProvider ==
    /\ cfg.provider = "OpenSsl" => cfg.rustls_raw = None
    /\ cfg.provider = "Rustls" => cfg.openssl_raw = None

====
